---------------------------- MODULE Spec2Model ----------------------------
(***************************************************************************)
(* A state-machine model of comm.c, the TEMPer USB driver: the product     *)
(* table, the device matcher (TemperCreateFromDeviceNumber), session open  *)
(* (TemperCreate), teardown (TemperFree), the two command senders, the     *)
(* interrupt read and the reading decoder.                                 *)
(*                                                                         *)
(* libusb is the environment.  Every libusb call the code makes is         *)
(* appended to `calls` with its arguments and its return value; the return *)
(* value is chosen nondeterministically inside the action that makes the   *)
(* call.  calloc is taken to succeed.                                      *)
(***************************************************************************)
EXTENDS Integers, Sequences, FiniteSets, TLC

VARIABLES
    busses,   \* what usb_get_busses() returns: a sequence of buses, each a
              \* sequence of device descriptors (the two linked lists)
    wire,     \* the 8-byte response the device has ready for an interrupt read
    pc,       \* the caller's position: "start", "live", "nosession", "freed"
    t,        \* the caller's Temper*: NULL or the struct Temper
    usb,      \* libusb's view of the one handle this run may open
    calls,    \* the libusb calls made by the last operation, in order
    out,      \* the lines the last operation printed (stdout and stderr)
    result    \* what the last operation returned to the caller

vars == <<busses, wire, pc, t, usb, calls, out, result>>

-----------------------------------------------------------------------------
(* Bounds of the model                                                     *)

MaxBuses == 2      \* buses in an enumeration
MaxDevices == 3    \* devices in an enumeration, over all its buses
MaxIndex == 3      \* largest deviceNum a caller asks for

-----------------------------------------------------------------------------
(* Program constants                                                       *)

BufLen == 72           \* sizeof(buf), unsigned char buf[8+8*8]
ReadLen == 8           \* sizeof(buf) in TemperGetData, unsigned char buf[8]
ENODATA == 61          \* <errno.h>
OtherErrno == ENODATA + 1   \* stands for every errno other than ENODATA

Byte == 0..255
NULL == [null |-> TRUE]
NullHandle == 0        \* usb_open's NULL
NewHandle == 1         \* the usb_dev_handle* a successful usb_open returns

(* A plausible slip: the entry of the original TEMPer, which the source    *)
(* keeps commented out, is left in the table.                              *)
ProductList_WithOriginal ==
    << [vendor |-> 4400, id |-> 26124, name |-> "Original RDing TEMPer"],
       [vendor |-> 3141, id |-> 29697, name |-> "RDing TEMPer2V1.3"],
       [vendor |-> 3141, id |-> 29698, name |-> "RDing TEMPerHumiV1.1"] >>

ProductList ==
    << [vendor |-> 3141, id |-> 29697, name |-> "RDing TEMPer2V1.3"],      \* 0x0c45, 0x7401
       [vendor |-> 3141, id |-> 29698, name |-> "RDing TEMPerHumiV1.1"] >> \* 0x0c45, 0x7402

ProductCount == Len(ProductList)

(* The descriptors a device of an enumeration may carry: the two supported *)
(* products and the unsupported original TEMPer (0x1130, 0x660c).          *)
Descriptors ==
    { [idVendor |-> 3141, idProduct |-> 29697],
      [idVendor |-> 3141, idProduct |-> 29698],
      [idVendor |-> 4400, idProduct |-> 26124] }

-----------------------------------------------------------------------------
(* Helpers                                                                 *)

SeqsUpTo(S, n) == UNION { [1..k -> S] : k \in 0..n }

RECURSIVE EnumerationsWithin(_, _)
(* The enumerations of at most nb buses holding at most nd devices in all. *)
EnumerationsWithin(nb, nd) ==
    IF nb = 0 THEN { <<>> }
    ELSE { <<>> } \cup
         UNION { { <<bus>> \o rest : rest \in EnumerationsWithin(nb - 1, nd - Len(bus)) } :
                 bus \in SeqsUpTo(Descriptors, nd) }

(* Every enumeration within the bounds.                                    *)
Enumerations == EnumerationsWithin(MaxBuses, MaxDevices)

Call(fn, args, ret) == [fn |-> fn, args |-> args, ret |-> ret]
Line(msg, args) == [msg |-> msg, args |-> args]
When(cond, lines) == IF cond THEN lines ELSE <<>>

(* A struct usb_device* is the place of the device in the enumeration.     *)
Dev(b, d) == [bus |-> b, dev |-> d]

-----------------------------------------------------------------------------
(* libusb's state of the handle                                            *)

UsbInit == [open |-> FALSE, opens |-> 0, closes |-> 0, dev |-> Dev(0, 0),
            config |-> 0, claimed |-> {}]

(* libusb-0.1 reports failure as a negative value and success as 0.        *)
StatusRets == {-16, 0}
OpenRets == {NullHandle, NewHandle}

(* usb_detach_kernel_driver_np: done, no driver attached, any other error. *)
DetachOutcomes ==
    { [ret |-> 0, errno |-> 0],
      [ret |-> -ENODATA, errno |-> ENODATA],
      [ret |-> -OtherErrno, errno |-> OtherErrno] }

(* The outcomes libusb may give to the calls of one TemperCreate.          *)
CreateOutcomes ==
    [open : OpenRets, det0 : DetachOutcomes, det1 : DetachOutcomes,
     conf : StatusRets, cl0 : StatusRets, cl1 : StatusRets]

UsbOpened(u, dev) == [u EXCEPT !.open = TRUE, !.opens = @ + 1, !.dev = dev]
UsbClosed(u) == [u EXCEPT !.open = FALSE, !.closes = @ + 1]
UsbConfigured(u, cfg, ret) == IF ret = 0 THEN [u EXCEPT !.config = cfg] ELSE u
UsbClaimed(u, iface, ret) ==
    IF ret = 0 THEN [u EXCEPT !.claimed = @ \cup {iface}] ELSE u

-----------------------------------------------------------------------------
(* TemperCreate, comm.c 74-145                                             *)

(* The debug lines after one usb_detach_kernel_driver_np, 102-118.         *)
DetachLines(debug, det) ==
    IF ~debug THEN <<>>
    ELSE IF det.ret # 0
         THEN IF det.errno = ENODATA
              THEN << Line("Device already detached", <<>>) >>
              ELSE << Line("Detach failed", <<det.errno>>),
                      Line("Continuing anyway", <<>>) >>
         ELSE << Line("detach successful", <<>>) >>

(* A plausible slip: the claim of interface 0 is made but not checked.     *)
ConfigureAndClaim_Cl0Unchecked(h, o) ==
    LET cConf == Call("usb_set_configuration", <<h, 1>>, o.conf)
        cCl0 == Call("usb_claim_interface", <<h, 0>>, o.cl0)
        cCl1 == Call("usb_claim_interface", <<h, 1>>, o.cl1)
    IN  IF o.conf < 0 THEN [failed |-> TRUE, calls |-> <<cConf>>]
        ELSE IF o.cl1 # 0 THEN [failed |-> TRUE, calls |-> <<cConf, cCl0, cCl1>>]
        ELSE [failed |-> FALSE, calls |-> <<cConf, cCl0, cCl1>>]

(* A plausible slip: a detach that fails for another reason than "no       *)
(* driver attached" makes open give up.                                    *)
ConfigureAndClaim_DetachFatal(h, o) ==
    LET cConf == Call("usb_set_configuration", <<h, 1>>, o.conf)
        cCl0 == Call("usb_claim_interface", <<h, 0>>, o.cl0)
        cCl1 == Call("usb_claim_interface", <<h, 1>>, o.cl1)
        fatal(det) == det.ret # 0 /\ det.errno # ENODATA
    IN  IF fatal(o.det0) \/ fatal(o.det1) THEN [failed |-> TRUE, calls |-> <<>>]
        ELSE IF o.conf < 0 THEN [failed |-> TRUE, calls |-> <<cConf>>]
        ELSE IF o.cl0 < 0 THEN [failed |-> TRUE, calls |-> <<cConf, cCl0>>]
        ELSE IF o.cl1 # 0 THEN [failed |-> TRUE, calls |-> <<cConf, cCl0, cCl1>>]
        ELSE [failed |-> FALSE, calls |-> <<cConf, cCl0, cCl1>>]

(* A plausible slip: the result of usb_set_configuration is not checked.   *)
ConfigureAndClaim_ConfUnchecked(h, o) ==
    LET cConf == Call("usb_set_configuration", <<h, 1>>, o.conf)
        cCl0 == Call("usb_claim_interface", <<h, 0>>, o.cl0)
        cCl1 == Call("usb_claim_interface", <<h, 1>>, o.cl1)
    IN  IF o.cl0 < 0 THEN [failed |-> TRUE, calls |-> <<cConf, cCl0>>]
        ELSE IF o.cl1 # 0 THEN [failed |-> TRUE, calls |-> <<cConf, cCl0, cCl1>>]
        ELSE [failed |-> FALSE, calls |-> <<cConf, cCl0, cCl1>>]

(* A plausible slip: the three results are combined with | and not ||, so  *)
(* every call is made whatever the earlier ones returned.                  *)
ConfigureAndClaim_NoShortCircuit(h, o) ==
    LET cConf == Call("usb_set_configuration", <<h, 1>>, o.conf)
        cCl0 == Call("usb_claim_interface", <<h, 0>>, o.cl0)
        cCl1 == Call("usb_claim_interface", <<h, 1>>, o.cl1)
    IN  [failed |-> o.conf < 0 \/ o.cl0 < 0 \/ o.cl1 # 0,
         calls |-> <<cConf, cCl0, cCl1>>]

(* The condition of line 137-139, with C's short-circuit ||: the calls it  *)
(* makes and whether it is true (open fails).                              *)
ConfigureAndClaim(h, o) ==
    LET cConf == Call("usb_set_configuration", <<h, 1>>, o.conf)
        cCl0 == Call("usb_claim_interface", <<h, 0>>, o.cl0)
        cCl1 == Call("usb_claim_interface", <<h, 1>>, o.cl1)
    IN  IF o.conf < 0 THEN [failed |-> TRUE, calls |-> <<cConf>>]
        ELSE IF o.cl0 < 0 THEN [failed |-> TRUE, calls |-> <<cConf, cCl0>>]
        ELSE IF o.cl1 # 0 THEN [failed |-> TRUE, calls |-> <<cConf, cCl0, cCl1>>]
        ELSE [failed |-> FALSE, calls |-> <<cConf, cCl0, cCl1>>]

(* A plausible slip: the failure path frees the struct and forgets the     *)
(* handle.                                                                 *)
CloseOnFailure_Leak(h, u) == [usb |-> u, calls |-> <<>>]

(* A change an implementer might make: interface 0, when claimed, is       *)
(* released before the handle is closed.                                   *)
CloseOnFailure_Release(h, u) ==
    IF 0 \in u.claimed
    THEN [usb |-> UsbClosed([u EXCEPT !.claimed = @ \ {0}]),
          calls |-> << Call("usb_release_interface", <<h, 0>>, 0),
                       Call("usb_close", <<h>>, 0) >>]
    ELSE [usb |-> UsbClosed(u), calls |-> << Call("usb_close", <<h>>, 0) >>]

(* usb_close(t->handle) of the failure path, line 140.                     *)
CloseOnFailure(h, u) ==
    [usb |-> UsbClosed(u), calls |-> << Call("usb_close", <<h>>, 0) >>]

RECURSIVE UsbAfter(_, _)
(* libusb's state of the handle after a sequence of configure/claim calls. *)
UsbAfter(u, cs) ==
    IF cs = <<>> THEN u
    ELSE LET c == Head(cs)
         IN  UsbAfter(IF c.fn = "usb_set_configuration"
                      THEN UsbConfigured(u, c.args[2], c.ret)
                      ELSE UsbClaimed(u, c.args[2], c.ret),
                      Tail(cs))

(* What TemperCreate returns (t), what it leaves of the handle (usb), the  *)
(* libusb calls it made and the lines it printed, under the outcomes o.    *)
TemperCreate(dev, timeout, debug, product, u, o) ==
    LET p == ProductList[product]
        out1 == When(debug, << Line("Temper device", <<p.name, p.vendor, p.id>>) >>)
        h == o.open
        cOpen == Call("usb_open", <<dev>>, h)
    IN  IF h = NullHandle
        THEN [t |-> NULL, usb |-> u, calls |-> <<cOpen>>, out |-> out1]
        ELSE
        LET u1 == UsbOpened(u, dev)
            out2 == out1
                    \o When(debug, << Line("Trying to detach kernel driver", <<>>) >>)
                    \o DetachLines(debug, o.det0)
                    \o DetachLines(debug, o.det1)
            cDet == << Call("usb_detach_kernel_driver_np", <<h, 0>>, o.det0.ret),
                       Call("usb_detach_kernel_driver_np", <<h, 1>>, o.det1.ret) >>
            cc == ConfigureAndClaim(h, o)
            u2 == UsbAfter(u1, cc.calls)
            cl == CloseOnFailure(h, u2)
        IN  IF cc.failed
            THEN [t |-> NULL, usb |-> cl.usb,
                  calls |-> <<cOpen>> \o cDet \o cc.calls \o cl.calls,
                  out |-> out2]
            ELSE [t |-> [device |-> dev, handle |-> h, debug |-> debug,
                         timeout |-> timeout, product |-> product],
                  usb |-> u2,
                  calls |-> <<cOpen>> \o cDet \o cc.calls,
                  out |-> out2]

-----------------------------------------------------------------------------
(* TemperCreateFromDeviceNumber, comm.c 147-180                            *)

(* The three nested loops, as one scan over (bus b, device d, product i)   *)
(* with the counter n.  ProductList is indexed from 1 here, from 0 in C.   *)
RECURSIVE Scan(_, _, _, _, _, _, _, _)
Scan(bs, deviceNum, debug, b, d, i, n, o) ==
    IF b > Len(bs) THEN [found |-> FALSE, out |-> o]
    ELSE IF d > Len(bs[b]) THEN Scan(bs, deviceNum, debug, b + 1, 1, 1, n, o)
    ELSE IF i > ProductCount THEN Scan(bs, deviceNum, debug, b, d + 1, 1, n, o)
    ELSE
    LET dev == bs[b][d]
        o1 == o \o When(debug /\ i = 1,
                        << Line("Found device", <<dev.idVendor, dev.idProduct>>) >>)
    IN  IF dev.idVendor = ProductList[i].vendor /\ dev.idProduct = ProductList[i].id
        THEN LET o2 == o1 \o When(debug, << Line("Found deviceNum", <<n>>) >>)
             IN  IF n = deviceNum
                 THEN [found |-> TRUE, dev |-> Dev(b, d), product |-> i, out |-> o2]
                 ELSE Scan(bs, deviceNum, debug, b, d, i + 1, n + 1, o2)
        ELSE Scan(bs, deviceNum, debug, b, d, i + 1, n, o1)

(* A plausible slip: the matches are counted from 1.                       *)
FindDevice_OneBased(bs, deviceNum, debug) ==
    Scan(bs, deviceNum, debug, 1, 1, 1, 1, <<>>)

(* A plausible slip: an index past the last match falls back to the first  *)
(* match.                                                                  *)
FindDevice_Fallback(bs, deviceNum, debug) ==
    LET f == Scan(bs, deviceNum, debug, 1, 1, 1, 0, <<>>)
    IN  IF f.found THEN f ELSE Scan(bs, 0, debug, 1, 1, 1, 0, <<>>)

FindDevice(bs, deviceNum, debug) == Scan(bs, deviceNum, debug, 1, 1, 1, 0, <<>>)

(* A plausible slip: when the selected device cannot be opened the next    *)
(* match is tried.                                                         *)
CreateFromDeviceNumber_TryNext(bs, deviceNum, timeout, debug, u, o) ==
    LET f == FindDevice(bs, deviceNum, debug)
    IN  IF ~f.found
        THEN [t |-> NULL, usb |-> u, calls |-> <<>>, out |-> f.out,
              found |-> FALSE]
        ELSE LET c == TemperCreate(f.dev, timeout, debug, f.product, u, o)
                 f2 == FindDevice(bs, deviceNum + 1, debug)
             IN  IF c.t = NULL /\ f2.found
                 THEN LET c2 == TemperCreate(f2.dev, timeout, debug, f2.product,
                                             c.usb, o)
                      IN  [t |-> c2.t, usb |-> c2.usb, calls |-> c.calls \o c2.calls,
                           out |-> f.out \o c.out \o c2.out, found |-> TRUE,
                           dev |-> f2.dev, product |-> f2.product]
                 ELSE [t |-> c.t, usb |-> c.usb, calls |-> c.calls,
                       out |-> f.out \o c.out, found |-> TRUE,
                       dev |-> f.dev, product |-> f.product]

(* The whole call: NULL without any libusb call when the scan finds no     *)
(* deviceNum-th match, else what TemperCreate gives for the selected one.  *)
CreateFromDeviceNumber(bs, deviceNum, timeout, debug, u, o) ==
    LET f == FindDevice(bs, deviceNum, debug)
    IN  IF ~f.found
        THEN [t |-> NULL, usb |-> u, calls |-> <<>>, out |-> f.out,
              found |-> FALSE]
        ELSE LET c == TemperCreate(f.dev, timeout, debug, f.product, u, o)
             IN  [t |-> c.t, usb |-> c.usb, calls |-> c.calls,
                  out |-> f.out \o c.out, found |-> TRUE,
                  dev |-> f.dev, product |-> f.product]

-----------------------------------------------------------------------------
(* TemperFree, comm.c 182-191                                              *)

(* A plausible slip: the struct is freed and the handle forgotten.         *)
TemperFree_Leak(tt, u) == [usb |-> u, calls |-> <<>>]

TemperFree(tt, u) ==
    IF tt # NULL
    THEN IF tt.handle # NullHandle
         THEN [usb |-> UsbClosed(u),
               calls |-> << Call("usb_close", <<tt.handle>>, 0) >>]
         ELSE [usb |-> u, calls |-> <<>>]
    ELSE [usb |-> u, calls |-> <<>>]

-----------------------------------------------------------------------------
(* TemperSendCommand8 and TemperSendCommand2, comm.c 193-247               *)

(* An int stored into an unsigned char.                                    *)
ToByte(x) == x % 256

(* bzero(buf, sizeof(buf)), then the leading bytes.                        *)
Frame(bytes) ==
    [k \in 1..BufLen |-> IF k <= Len(bytes) THEN ToByte(bytes[k]) ELSE 0]

(* A plausible slip: only a short count is taken as a failure.             *)
ControlFailed_Short(ret) == ret < BufLen

(* ret != sizeof(buf), lines 217 and 242.  ret is converted to size_t for  *)
(* the comparison; the conversion is one-to-one on int, so the two sides   *)
(* differ exactly when ret is not 72.                                      *)
ControlFailed(ret) == ret # BufLen

(* The values usb_control_msg may report: error codes, nothing written, a  *)
(* partial count, the full count and (from a test double) a larger one.    *)
ControlRets == {-110, -1, 0, 1, BufLen - 1, BufLen, BufLen + 1}

(* A plausible slip: the transfer is given a fixed timeout and not the     *)
(* Session's.                                                              *)
TemperSendCommand8_FixedTimeout(tt, a, ret) ==
    [ret |-> IF ControlFailed(ret) THEN -1 ELSE 0,
     calls |-> << Call("usb_control_msg",
                       <<tt.handle, 33, 9, 512, 1, Frame(a), BufLen, 1000>>,
                       ret) >>,
     out |-> When(tt.debug, << Line("sending bytes", a \o <<BufLen>>) >>)
             \o When(ControlFailed(ret), << Line("usb_control_msg failed", <<>>) >>)]

(* A plausible slip: a transfer that failed is sent a second time.         *)
TemperSendCommand8_Retry(tt, a, ret) ==
    LET c == Call("usb_control_msg",
                  <<tt.handle, 33, 9, 512, 1, Frame(a), BufLen, tt.timeout>>, ret)
    IN  [ret |-> IF ControlFailed(ret) THEN -1 ELSE 0,
         calls |-> IF ControlFailed(ret) THEN <<c, c>> ELSE <<c>>,
         out |-> When(tt.debug, << Line("sending bytes", a \o <<BufLen>>) >>)
                 \o When(ControlFailed(ret), << Line("usb_control_msg failed", <<>>) >>)]

TemperSendCommand8(tt, a, ret) ==
    [ret |-> IF ControlFailed(ret) THEN -1 ELSE 0,
     calls |-> << Call("usb_control_msg",
                       <<tt.handle, 33, 9, 512, 1, Frame(a), BufLen, tt.timeout>>,
                       ret) >>,
     out |-> When(tt.debug, << Line("sending bytes", a \o <<BufLen>>) >>)
             \o When(ControlFailed(ret), << Line("usb_control_msg failed", <<>>) >>)]

(* A plausible slip: the request value and index are those of the          *)
(* 8-parameter command.                                                    *)
TemperSendCommand2_Params8(tt, a, ret) ==
    [ret |-> IF ControlFailed(ret) THEN -1 ELSE 0,
     calls |-> << Call("usb_control_msg",
                       <<tt.handle, 33, 9, 512, 1, Frame(a), BufLen, tt.timeout>>,
                       ret) >>,
     out |-> When(tt.debug, << Line("sending bytes", a \o <<BufLen>>) >>)
             \o When(ControlFailed(ret), << Line("usb_control_msg failed", <<>>) >>)]

TemperSendCommand2(tt, a, ret) ==
    [ret |-> IF ControlFailed(ret) THEN -1 ELSE 0,
     calls |-> << Call("usb_control_msg",
                       <<tt.handle, 33, 9, 513, 0, Frame(a), BufLen, tt.timeout>>,
                       ret) >>,
     out |-> When(tt.debug, << Line("sending bytes", a \o <<BufLen>>) >>)
             \o When(ControlFailed(ret), << Line("usb_control_msg failed", <<>>) >>)]

-----------------------------------------------------------------------------
(* TemperInterruptRead, comm.c 249-267                                     *)

(* usb_interrupt_read stores the bytes it received, ret of them when ret   *)
(* is positive, at the front of buf and leaves the rest of buf as it was.  *)
Received(buf, len, rd) ==
    [k \in 1..len |-> IF k <= rd.ret THEN rd.bytes[k] ELSE buf[k]]

(* A plausible slip: in debug mode the value returned is printf's.         *)
TemperInterruptRead_DebugReturn(tt, buf, len, rd) ==
    LET got == Received(buf, len, rd)
    IN  [ret |-> IF tt.debug THEN Len("receiving") ELSE rd.ret,
         buf |-> got,
         calls |-> << Call("usb_interrupt_read",
                           <<tt.handle, 130, len, tt.timeout>>, rd.ret) >>,
         out |-> When(tt.debug,
                      << Line("interrupt read", <<>>),
                         Line("receiving", <<rd.ret>>),
                         Line("bytes", SubSeq(got, 1, rd.ret)) >>)]

TemperInterruptRead(tt, buf, len, rd) ==
    LET got == Received(buf, len, rd)
    IN  [ret |-> rd.ret,
         buf |-> got,
         calls |-> << Call("usb_interrupt_read",
                           <<tt.handle, 130, len, tt.timeout>>, rd.ret) >>,
         out |-> When(tt.debug,
                      << Line("interrupt read", <<>>),
                         Line("receiving", <<rd.ret>>),
                         Line("bytes", SubSeq(got, 1, rd.ret)) >>)]

-----------------------------------------------------------------------------
(* TemperByteToCelcius, comm.c 269-278                                     *)

RECURSIVE BitOr(_, _)
(* a | b on non-negative integers.                                         *)
BitOr(a, b) ==
    IF a = 0 THEN b
    ELSE IF b = 0 THEN a
    ELSE (IF a % 2 = 1 \/ b % 2 = 1 THEN 1 ELSE 0) + 2 * BitOr(a \div 2, b \div 2)

(* (int8_t)high                                                            *)
Int8(x) == IF x % 256 >= 128 THEN (x % 256) - 256 ELSE x % 256

(* (int16_t)x: the low 16 bits of x, read as two's complement.             *)
Int16(x) == IF x % 65536 >= 32768 THEN (x % 65536) - 65536 ELSE x % 65536

(* A plausible slip: the word is kept unsigned.                            *)
TemperWord_Unsigned(high, low) == BitOr((high % 256) * 256, low % 256)

(* int16_t word = ((int8_t)high << 8) | low, line 271.  The shift of a     *)
(* negative int multiplies by 256 (gcc defines it so); the low 16 bits of  *)
(* the | are the | of the operands' low 16 bits, and the conversion to     *)
(* int16_t keeps only those.                                               *)
TemperWord(high, low) ==
    Int16(BitOr((Int8(high) * 256) % 65536, low % 65536))

RECURSIVE Gcd(_, _)
Gcd(a, b) == IF b = 0 THEN a ELSE Gcd(b, a % b)

Abs(x) == IF x < 0 THEN -x ELSE x

(* The exact value n/d, in lowest terms.                                   *)
Frac(n, d) ==
    LET g == Gcd(Abs(n), d) IN [num |-> n \div g, den |-> d \div g]

(* ((float)word) * (125.0 / 32000.0), line 277.  Every step is exact: a    *)
(* 16-bit word is a float, 125.0/32000.0 is 2^-8, and the product of the   *)
(* two is a float again.  So the result is the rational word*125/32000.    *)
TemperByteToCelcius(high, low) == Frac(TemperWord(high, low) * 125, 32000)

-----------------------------------------------------------------------------
(* TemperGetData, comm.c 280-289                                           *)

(* The caller's struct TemperData before the call has written to it.       *)
NoData == [written |-> FALSE]

(* A plausible slip: the second channel is read one byte too early.       *)
TemperGetData_Offset(tt, stack, rd) ==
    LET r == TemperInterruptRead(tt, stack, ReadLen, rd)
    IN  [ret |-> r.ret,
         data |-> [written |-> TRUE,
                   tempA |-> TemperByteToCelcius(r.buf[3], r.buf[4]),
                   tempB |-> TemperByteToCelcius(r.buf[4], r.buf[5])],
         buf |-> r.buf,
         calls |-> r.calls,
         out |-> r.out]

(* A plausible slip: a read that is not full is reported as -1, the way    *)
(* the command senders report a failure.                                   *)
TemperGetData_ErrorCode(tt, stack, rd) ==
    LET r == TemperInterruptRead(tt, stack, ReadLen, rd)
    IN  [ret |-> IF r.ret # ReadLen THEN -1 ELSE r.ret,
         data |-> [written |-> TRUE,
                   tempA |-> TemperByteToCelcius(r.buf[3], r.buf[4]),
                   tempB |-> TemperByteToCelcius(r.buf[5], r.buf[6])],
         buf |-> r.buf,
         calls |-> r.calls,
         out |-> r.out]

(* buf is an uninitialised local: `stack` is what it happens to hold.      *)
(* buf[2..5] of C are buf[3..6] here.                                      *)
TemperGetData(tt, stack, rd) ==
    LET r == TemperInterruptRead(tt, stack, ReadLen, rd)
    IN  [ret |-> r.ret,
         data |-> [written |-> TRUE,
                   tempA |-> TemperByteToCelcius(r.buf[3], r.buf[4]),
                   tempB |-> TemperByteToCelcius(r.buf[5], r.buf[6])],
         buf |-> r.buf,
         calls |-> r.calls,
         out |-> r.out]

-----------------------------------------------------------------------------
(* The inputs the operations are run on                                    *)

Timeouts == {1000, 2500}

CommandArgs8 == { <<10, 11, 12, 13, 0, 0, 2, 0>>, <<1, 128, 51, 1, 0, 0, 0, 340>> }
CommandArgs2 == { <<1, 1>>, <<72, 511>> }

(* What usb_interrupt_read may return: a timeout, an error, nothing, a     *)
(* short count, the full count.                                            *)
ReadRets == {-110, -1, 0, 3, ReadLen}

SampleFrames == { <<0, 0, 1, 144, 255, 112, 0, 0>>,
                  <<128, 2, 127, 255, 128, 0, 3, 4>> }
StackFrames == { <<0, 0, 0, 0, 0, 0, 0, 0>>,
                 <<222, 173, 190, 239, 202, 254, 186, 190>> }

ByteSamples == {0, 1, 112, 144, 255}
WideFrames ==
    { <<p[1], p[2], w[1], w[2], w[3], w[4], p[2], p[1]>> :
        p \in [1..2 -> {0, 255}], w \in [1..4 -> ByteSamples] }

(* A few enumerations for the runs that follow a session through its life: *)
(* nothing plugged in, one sensor, and sensors on two buses behind an      *)
(* unsupported device.                                                     *)
SessionEnumerations ==
    { <<>>,
      << << [idVendor |-> 3141, idProduct |-> 29697] >> >>,
      << << [idVendor |-> 4400, idProduct |-> 26124],
            [idVendor |-> 3141, idProduct |-> 29698] >>,
         << [idVendor |-> 3141, idProduct |-> 29697] >> >> }

AllOk == [open |-> NewHandle, det0 |-> [ret |-> 0, errno |-> 0],
          det1 |-> [ret |-> 0, errno |-> 0], conf |-> 0, cl0 |-> 0, cl1 |-> 0]

(* Three runs of TemperCreate: all well, usb_open fails, the last claim    *)
(* fails.                                                                  *)
PlainOutcomes ==
    { AllOk, [AllOk EXCEPT !.open = NullHandle], [AllOk EXCEPT !.cl1 = -16] }

-----------------------------------------------------------------------------
(* The operations, as the caller runs them                                 *)

Start(bs, frame) ==
    /\ busses = bs
    /\ wire = frame
    /\ pc = "start"
    /\ t = NULL
    /\ usb = UsbInit
    /\ calls = <<>>
    /\ out = <<>>
    /\ result = [op |-> "none"]

Call_TemperCreateFromDeviceNumber(deviceNum, timeout, debug, o) ==
    /\ pc = "start"
    /\ LET r == CreateFromDeviceNumber(busses, deviceNum, timeout, debug, usb, o)
       IN  /\ t' = r.t
           /\ usb' = r.usb
           /\ calls' = r.calls
           /\ out' = r.out
           /\ result' = [op |-> "TemperCreateFromDeviceNumber",
                         deviceNum |-> deviceNum, timeout |-> timeout,
                         debug |-> debug, ret |-> r.t]
           /\ pc' = IF r.t = NULL THEN "nosession" ELSE "live"
    /\ UNCHANGED <<busses, wire>>

Call_TemperFree ==
    /\ pc \in {"live", "nosession"}
    /\ LET r == TemperFree(t, usb)
       IN  /\ usb' = r.usb
           /\ calls' = r.calls
    /\ out' = <<>>
    /\ result' = [op |-> "TemperFree", arg |-> t]
    /\ t' = NULL
    /\ pc' = "freed"
    /\ UNCHANGED <<busses, wire>>

Call_TemperSendCommand8(a, ret) ==
    /\ pc = "live"
    /\ LET r == TemperSendCommand8(t, a, ret)
       IN  /\ calls' = r.calls
           /\ out' = r.out
           /\ result' = [op |-> "TemperSendCommand8", args |-> a, ret |-> r.ret]
    /\ UNCHANGED <<busses, wire, pc, t, usb>>

Call_TemperSendCommand2(a, ret) ==
    /\ pc = "live"
    /\ LET r == TemperSendCommand2(t, a, ret)
       IN  /\ calls' = r.calls
           /\ out' = r.out
           /\ result' = [op |-> "TemperSendCommand2", args |-> a, ret |-> r.ret]
    /\ UNCHANGED <<busses, wire, pc, t, usb>>

Call_TemperInterruptRead(buf, ret) ==
    /\ pc = "live"
    /\ LET r == TemperInterruptRead(t, buf, ReadLen, [ret |-> ret, bytes |-> wire])
       IN  /\ calls' = r.calls
           /\ out' = r.out
           /\ result' = [op |-> "TemperInterruptRead", before |-> buf,
                         ret |-> r.ret, buf |-> r.buf]
    /\ UNCHANGED <<busses, wire, pc, t, usb>>

Call_TemperGetData(stack, ret) ==
    /\ pc = "live"
    /\ LET r == TemperGetData(t, stack, [ret |-> ret, bytes |-> wire])
       IN  /\ calls' = r.calls
           /\ out' = r.out
           /\ result' = [op |-> "TemperGetData", stack |-> stack,
                         ret |-> r.ret, data |-> r.data]
    /\ UNCHANGED <<busses, wire, pc, t, usb>>

(* The decoder applied to one byte pair, once.                             *)
Call_TemperByteToCelcius(high, low) ==
    /\ result.op = "none"
    /\ result' = [op |-> "TemperByteToCelcius", high |-> high, low |-> low,
                  word |-> TemperWord(high, low),
                  celsius |-> TemperByteToCelcius(high, low)]
    /\ UNCHANGED <<busses, wire, pc, t, usb, calls, out>>

-----------------------------------------------------------------------------
(* Specifications                                                          *)

(* A session through its life.                                             *)
Init == \E bs \in SessionEnumerations, frame \in SampleFrames : Start(bs, frame)

Next ==
    \/ \E deviceNum \in 0..MaxIndex, timeout \in Timeouts, debug \in BOOLEAN,
          o \in CreateOutcomes :
            Call_TemperCreateFromDeviceNumber(deviceNum, timeout, debug, o)
    \/ \E a \in CommandArgs8, ret \in ControlRets :
            Call_TemperSendCommand8(a, ret)
    \/ \E a \in CommandArgs2, ret \in ControlRets :
            Call_TemperSendCommand2(a, ret)
    \/ \E buf \in StackFrames, ret \in ReadRets :
            Call_TemperInterruptRead(buf, ret)
    \/ \E stack \in StackFrames, ret \in ReadRets :
            Call_TemperGetData(stack, ret)
    \/ Call_TemperFree

Spec == Init /\ [][Next]_vars

(* The matcher over every enumeration within the bounds.                   *)
InitMatch == \E bs \in Enumerations : Start(bs, <<0, 0, 0, 0, 0, 0, 0, 0>>)

NextMatch ==
    \E deviceNum \in 0..MaxIndex, debug \in BOOLEAN, o \in PlainOutcomes :
        Call_TemperCreateFromDeviceNumber(deviceNum, 1000, debug, o)

SpecMatch == InitMatch /\ [][NextMatch]_vars

(* The decoder over every byte pair.                                       *)
InitDecode ==
    \E high \in Byte, low \in Byte : Start(<<>>, <<0, 0, high, low, 0, 0, 0, 0>>)

NextDecode == Call_TemperByteToCelcius(wire[3], wire[4])

SpecDecode == InitDecode /\ [][NextDecode]_vars

(* Polls of one open session over a wide set of response frames.           *)
InitRead ==
    \E frame \in WideFrames :
        Start(<< << [idVendor |-> 3141, idProduct |-> 29697] >> >>, frame)

NextRead ==
    \/ Call_TemperCreateFromDeviceNumber(0, 1000, FALSE, AllOk)
    \/ \E stack \in StackFrames, ret \in ReadRets :
            Call_TemperGetData(stack, ret)

SpecRead == InitRead /\ [][NextRead]_vars

-----------------------------------------------------------------------------
(* Properties                                                              *)

CountCalls(cs, fn) == Cardinality({ k \in 1..Len(cs) : cs[k].fn = fn })

Created == result.op = "TemperCreateFromDeviceNumber"

(* usb_open was called by the last operation and gave a handle.            *)
Opened == calls # <<>> /\ calls[1].fn = "usb_open" /\ calls[1].ret # NullHandle

(* The devices of an enumeration in bus-then-device order, and those of    *)
(* them the registry knows.                                                *)
RECURSIVE AllDevs(_, _)
AllDevs(bs, b) ==
    IF b > Len(bs) THEN <<>>
    ELSE [d \in 1..Len(bs[b]) |-> Dev(b, d)] \o AllDevs(bs, b + 1)

IsRegistered(desc) ==
    \E i \in 1..ProductCount :
        ProductList[i].vendor = desc.idVendor /\ ProductList[i].id = desc.idProduct

Supported(bs) ==
    SelectSeq(AllDevs(bs, 1), LAMBDA x : IsRegistered(bs[x.bus][x.dev]))

(* C1: a Session the caller holds has an open handle on its device, with   *)
(* configuration 1 set and interfaces 0 and 1 both claimed; open returns   *)
(* such a Session or NULL, whatever libusb answered.                       *)
C1_SessionAllOrNothing ==
    /\ t # NULL =>
        /\ t.handle # NullHandle
        /\ usb.open
        /\ usb.dev = t.device
        /\ usb.config = 1
        /\ usb.claimed = {0, 1}
    /\ Created => result.ret = t

C1_Witness ==
    /\ Created
    /\ t # NULL
    /\ calls[2].ret = -OtherErrno
    /\ usb.claimed = {0, 1}

(* C2: an open that fails after usb_open gave a handle calls usb_close on  *)
(* that handle exactly once and leaves it closed; an open that succeeds    *)
(* does not call usb_close.                                                *)
C2_FailedOpenClosesOnce ==
    (Created /\ Opened) =>
        IF result.ret = NULL
        THEN /\ CountCalls(calls, "usb_close") = 1
             /\ calls[Len(calls)] = Call("usb_close", <<calls[1].ret>>, 0)
             /\ usb.closes = 1
             /\ ~usb.open
        ELSE /\ CountCalls(calls, "usb_close") = 0
             /\ usb.closes = 0
             /\ usb.open

(* The claim of interface 1 failed after interface 0 was claimed.          *)
C2_Witness ==
    /\ Created
    /\ Opened
    /\ result.ret = NULL
    /\ Len(calls) = 7
    /\ calls[6].ret < 0
    /\ usb.closes = 1

(* C3: a poll whose interrupt read did not return 8 bytes hands no decoded *)
(* temperatures to the caller.                                             *)
C3_ShortReadNotDecoded ==
    (result.op = "TemperGetData" /\ result.ret # ReadLen) => ~result.data.written

(* C4: the command senders return 0 when usb_control_msg reported 72 and   *)
(* -1 for every other reported value.                                      *)
C4_SendSucceedsIffFullCount ==
    result.op \in {"TemperSendCommand8", "TemperSendCommand2"} =>
        /\ Len(calls) = 1
        /\ calls[1].fn = "usb_control_msg"
        /\ result.ret = (IF calls[1].ret = 72 THEN 0 ELSE -1)

C4_Witness ==
    /\ result.op = "TemperSendCommand2"
    /\ calls[1].ret = 73
    /\ result.ret = -1

(* C5: when the enumeration holds more than deviceNum registered devices,  *)
(* usb_open is called on the registered device number deviceNum, counting  *)
(* from 0 in bus-then-device order and skipping the unregistered ones, and *)
(* the Session is built on it.                                             *)
C5_SelectsNthMatch ==
    (Created /\ result.deviceNum < Len(Supported(busses))) =>
        LET sel == Supported(busses)[result.deviceNum + 1]
        IN  /\ calls # <<>>
            /\ calls[1].fn = "usb_open"
            /\ calls[1].args = <<sel>>
            /\ t # NULL => t.device = sel
            /\ CountCalls(calls, "usb_open") = 1

(* Index 1 selects the first device of the second bus, behind a registered *)
(* and an unregistered device on the first bus.                            *)
C5_Witness ==
    /\ Created
    /\ result.deviceNum = 1
    /\ Len(busses) = 2
    /\ Len(busses[1]) = 2
    /\ ~IsRegistered(busses[1][2])
    /\ IsRegistered(busses[1][1])
    /\ t # NULL
    /\ t.device = Dev(2, 1)

(* C6: when the enumeration holds fewer than deviceNum+1 registered        *)
(* devices, the call returns NULL and makes no libusb call at all.         *)
C6_NotFoundOpensNothing ==
    (Created /\ Len(Supported(busses)) < result.deviceNum + 1) =>
        /\ result.ret = NULL
        /\ t = NULL
        /\ calls = <<>>
        /\ usb = UsbInit

(* Two registered devices and one unregistered, index 2.                   *)
C6_Witness ==
    /\ Created
    /\ result.deviceNum = 2
    /\ Len(Supported(busses)) = 2
    /\ Len(AllDevs(busses, 1)) = 3
    /\ result.ret = NULL

(* C7: once usb_open gave a handle, both detaches are attempted and the    *)
(* configuration is set whatever the detaches returned, and open succeeds  *)
(* exactly when set-configuration and both claims were made and succeeded. *)
C7_DetachFailOpen ==
    (Created /\ Opened) =>
        /\ Len(calls) >= 4
        /\ calls[2].fn = "usb_detach_kernel_driver_np" /\ calls[2].args[2] = 0
        /\ calls[3].fn = "usb_detach_kernel_driver_np" /\ calls[3].args[2] = 1
        /\ calls[4].fn = "usb_set_configuration"
        /\ (result.ret # NULL) <=>
              /\ Len(calls) = 6
              /\ \A k \in 4..6 : calls[k].ret = 0
              /\ calls[5] = Call("usb_claim_interface", <<calls[1].ret, 0>>, 0)
              /\ calls[6] = Call("usb_claim_interface", <<calls[1].ret, 1>>, 0)

(* Both detaches failed, each in its own way, and open succeeded.          *)
C7_Witness ==
    /\ Created
    /\ Opened
    /\ calls[2].ret = -OtherErrno
    /\ calls[3].ret = -ENODATA
    /\ result.ret # NULL

(* C8: the decoded word is the 16-bit two's-complement reading of          *)
(* high*256+low, within -32768..32767, and the Celsius value is word/256;  *)
(* (0,0) gives 0, (0x01,0x90) gives 400 and 1.5625, (0xFF,0x70) gives -144 *)
(* and -0.5625.                                                            *)
C8_DecodeWord ==
    result.op = "TemperByteToCelcius" =>
        LET v == result.high * 256 + result.low
            w == IF v >= 32768 THEN v - 65536 ELSE v
            c == result.celsius
        IN  /\ result.word = w
            /\ result.word \in -32768..32767
            /\ c.den > 0
            /\ c.num * 256 = w * c.den
            /\ (result.high = 0 /\ result.low = 0) => c = [num |-> 0, den |-> 1]
            /\ (result.high = 1 /\ result.low = 144) =>
                    w = 400 /\ c = [num |-> 25, den |-> 16]
            /\ (result.high = 255 /\ result.low = 112) =>
                    w = -144 /\ c = [num |-> -9, den |-> 16]

C8_Witness ==
    /\ result.op = "TemperByteToCelcius"
    /\ result.high = 255
    /\ result.low = 112
    /\ result.word = -144
    /\ result.celsius = [num |-> -9, den |-> 16]

(* C9: after a full 8-byte read, tempA is the decoding of response bytes 2 *)
(* (high) and 3 (low) and tempB that of bytes 4 (high) and 5 (low), so the *)
(* Reading does not depend on bytes 0, 1, 6 and 7; a response              *)
(* [_, _, 0x01, 0x90, 0xFF, 0x70, _, _] gives 1.5625 and -0.5625.          *)
C9_ReadingFromBytes2To5 ==
    (result.op = "TemperGetData" /\ result.ret = ReadLen) =>
        /\ result.data.written
        /\ result.data.tempA = TemperByteToCelcius(wire[3], wire[4])
        /\ result.data.tempB = TemperByteToCelcius(wire[5], wire[6])
        /\ SubSeq(wire, 3, 6) = <<1, 144, 255, 112>> =>
              /\ result.data.tempA = [num |-> 25, den |-> 16]
              /\ result.data.tempB = [num |-> -9, den |-> 16]

C9_Witness ==
    /\ result.op = "TemperGetData"
    /\ result.ret = ReadLen
    /\ wire = <<255, 0, 1, 144, 255, 112, 0, 255>>
    /\ result.data.tempA = [num |-> 25, den |-> 16]
    /\ result.data.tempB = [num |-> -9, den |-> 16]

(* C10: while the Session is live its handle is open, is the one usb_open  *)
(* gave and has never been closed, whatever commands and reads have run;   *)
(* TemperFree of a Session closes the handle, once; TemperFree of NULL     *)
(* makes no libusb call.                                                   *)
C10_ClosedOnceByFree ==
    /\ pc = "live" =>
        /\ t.handle = NewHandle
        /\ usb.open
        /\ usb.closes = 0
        /\ CountCalls(calls, "usb_close") = 0
    /\ result.op = "TemperFree" =>
        IF result.arg # NULL
        THEN /\ calls = << Call("usb_close", <<result.arg.handle>>, 0) >>
             /\ usb.closes = 1
             /\ ~usb.open
        ELSE /\ calls = <<>>
             /\ ~usb.open

C10_Witness ==
    /\ result.op = "TemperFree"
    /\ result.arg # NULL
    /\ usb.closes = 1
    /\ usb.opens = 1

(* The kind of failure the libusb calls of one TemperCreateFromDeviceNumber *)
(* show: no call at all, usb_open gave NULL, set-configuration failed, a   *)
(* claim failed; "none" when nothing failed.                               *)
FailureKind(cs) ==
    IF cs = <<>> THEN "DeviceNotFound"
    ELSE IF cs[1].ret = NullHandle THEN "OpenFailed"
    ELSE IF \E k \in 1..Len(cs) :
                cs[k].fn = "usb_set_configuration" /\ cs[k].ret < 0
         THEN "ConfigurationFailed"
    ELSE IF \E k \in 1..Len(cs) :
                cs[k].fn = "usb_claim_interface" /\ cs[k].ret # 0
         THEN "InterfaceClaimFailed"
    ELSE "none"

OtherDebug(tt) == IF tt = NULL THEN NULL ELSE [tt EXCEPT !.debug = ~@]

SameButDebug(a, b) ==
    IF a = NULL \/ b = NULL THEN a = b
    ELSE [a EXCEPT !.debug = FALSE] = [b EXCEPT !.debug = FALSE]

(* C12: the operation that has just run would have made the same libusb   *)
(* calls with the same arguments, left the handle in the same state and    *)
(* returned the same value and data had the debug flag been the other way  *)
(* and libusb answered alike.                                              *)
C12_DebugObservabilityOnly ==
    /\ Created =>
        \A o \in CreateOutcomes :
            LET a == CreateFromDeviceNumber(busses, result.deviceNum, result.timeout,
                                            result.debug, UsbInit, o)
                b == CreateFromDeviceNumber(busses, result.deviceNum, result.timeout,
                                            ~result.debug, UsbInit, o)
            IN  a.calls = calls =>
                    /\ b.calls = calls
                    /\ b.usb = usb
                    /\ SameButDebug(b.t, t)
    /\ result.op = "TemperSendCommand8" =>
        LET b == TemperSendCommand8(OtherDebug(t), result.args, calls[1].ret)
        IN  b.calls = calls /\ b.ret = result.ret
    /\ result.op = "TemperSendCommand2" =>
        LET b == TemperSendCommand2(OtherDebug(t), result.args, calls[1].ret)
        IN  b.calls = calls /\ b.ret = result.ret
    /\ result.op = "TemperInterruptRead" =>
        LET b == TemperInterruptRead(OtherDebug(t), result.before, ReadLen,
                                     [ret |-> calls[1].ret, bytes |-> wire])
        IN  b.calls = calls /\ b.ret = result.ret /\ b.buf = result.buf
    /\ result.op = "TemperGetData" =>
        LET b == TemperGetData(OtherDebug(t), result.stack,
                               [ret |-> calls[1].ret, bytes |-> wire])
        IN  b.calls = calls /\ b.ret = result.ret /\ b.data = result.data
    /\ result.op = "TemperFree" =>
        \A u \in {usb, [usb EXCEPT !.open = TRUE, !.closes = 0]} :
            LET a == TemperFree(result.arg, u)
                b == TemperFree(OtherDebug(result.arg), u)
            IN  a.calls = calls => b.calls = calls /\ b.usb = a.usb

(* A read in debug mode that printed its three lines.                      *)
C12_Witness ==
    /\ result.op = "TemperInterruptRead"
    /\ t.debug
    /\ Len(out) = 3
    /\ result.ret = ReadLen

(* The frame of n meaningful bytes the call c carries: 72 bytes, the first *)
(* n those of a (each argument that is a byte, unchanged), zeros after.    *)
FrameCarries(c, a, n) ==
    LET f == c.args[6]
    IN  /\ Len(f) = 72
        /\ c.args[7] = 72
        /\ \A k \in 1..n : a[k] \in Byte => f[k] = a[k]
        /\ \A k \in 1..72 : f[k] \in Byte
        /\ \A k \in (n + 1)..72 : f[k] = 0

(* C13: sendCommand8 hands to usb_control_msg, with (0x21, 9, 0x200, 0x01), *)
(* a 72-byte frame holding a..h and then zeros; sendCommand2 hands, with   *)
(* (0x21, 9, 0x201, 0x00), a 72-byte frame holding a, b and then zeros.    *)
C13_FrameLayout ==
    /\ result.op = "TemperSendCommand8" =>
        /\ Len(calls) = 1
        /\ calls[1].fn = "usb_control_msg"
        /\ SubSeq(calls[1].args, 2, 5) = <<33, 9, 512, 1>>
        /\ Len(result.args) = 8
        /\ FrameCarries(calls[1], result.args, 8)
    /\ result.op = "TemperSendCommand2" =>
        /\ Len(calls) = 1
        /\ calls[1].fn = "usb_control_msg"
        /\ SubSeq(calls[1].args, 2, 5) = <<33, 9, 513, 0>>
        /\ Len(result.args) = 2
        /\ FrameCarries(calls[1], result.args, 2)

C13_Witness ==
    /\ result.op = "TemperSendCommand2"
    /\ result.args = <<1, 1>>
    /\ calls[1].args[6][2] = 1
    /\ calls[1].args[6][3] = 0
    /\ calls[1].args[6][72] = 0

(* The descriptor of the device usb_open was called on.                    *)
OpenedDescriptor == busses[calls[1].args[1].bus][calls[1].args[1].dev]

(* C14: no two registry entries carry the same (vendor, product) pair; the *)
(* matcher never selects a device with the unregistered pair               *)
(* (0x1130, 0x660c); a lone device with pair 0x0c45:0x7401 or              *)
(* 0x0c45:0x7402 is found at index 0; and the Session built on a device    *)
(* carries the registry entry of that device's pair.                       *)
C14_RegistryLookup ==
    /\ \A i, j \in 1..ProductCount :
            (ProductList[i].vendor = ProductList[j].vendor
                /\ ProductList[i].id = ProductList[j].id) => i = j
    /\ (Created /\ calls # <<>>) =>
        /\ OpenedDescriptor \in { [idVendor |-> 3141, idProduct |-> 29697],
                                  [idVendor |-> 3141, idProduct |-> 29698] }
        /\ t # NULL =>
            /\ ProductList[t.product].vendor = OpenedDescriptor.idVendor
            /\ ProductList[t.product].id = OpenedDescriptor.idProduct
            /\ ProductList[t.product].name =
                    (IF OpenedDescriptor.idProduct = 29697
                     THEN "RDing TEMPer2V1.3" ELSE "RDing TEMPerHumiV1.1")
    /\ (Created /\ result.deviceNum = 0 /\ Len(busses) = 1 /\ Len(busses[1]) = 1) =>
        (calls # <<>>) <=> (busses[1][1] # [idVendor |-> 4400, idProduct |-> 26124])

(* The second entry was found for a device standing behind an unregistered *)
(* one.                                                                    *)
C14_Witness ==
    /\ Created
    /\ t # NULL
    /\ t.device = Dev(1, 2)
    /\ busses[1][1] = [idVendor |-> 4400, idProduct |-> 26124]
    /\ ProductList[t.product].name = "RDing TEMPerHumiV1.1"

(* The libusb calls of a session open after usb_open, in their fixed       *)
(* order, on the handle h.                                                 *)
OpenSteps(h) ==
    << [fn |-> "usb_detach_kernel_driver_np", args |-> <<h, 0>>],
       [fn |-> "usb_detach_kernel_driver_np", args |-> <<h, 1>>],
       [fn |-> "usb_set_configuration", args |-> <<h, 1>>],
       [fn |-> "usb_claim_interface", args |-> <<h, 0>>],
       [fn |-> "usb_claim_interface", args |-> <<h, 1>>] >>

(* C15: session open calls usb_open first; if that fails it calls nothing  *)
(* else; otherwise it goes through detach 0, detach 1, set configuration 1, *)
(* claim 0, claim 1 in this order and stops at the first of the last three *)
(* that fails, so a failed set-configuration is followed by no claim and a *)
(* failed claim of interface 0 by no claim of interface 1.                 *)
C15_OpenStepOrder ==
    (Created /\ calls # <<>>) =>
        /\ calls[1].fn = "usb_open"
        /\ IF calls[1].ret = NullHandle
           THEN Len(calls) = 1
           ELSE LET h == calls[1].ret
                    closed == calls[Len(calls)].fn = "usb_close"
                    body == SubSeq(calls, 2, IF closed THEN Len(calls) - 1 ELSE Len(calls))
                    n == Len(body)
                IN  /\ n \in 3..5
                    /\ \A k \in 1..n :
                          /\ body[k].fn = OpenSteps(h)[k].fn
                          /\ body[k].args = OpenSteps(h)[k].args
                    /\ \A k \in 3..(n - 1) : body[k].ret = 0
                    /\ n < 5 => body[n].ret < 0
                    /\ (calls[4].ret < 0) => CountCalls(calls, "usb_claim_interface") = 0
                    /\ (n >= 4 /\ body[4].ret < 0) =>
                            CountCalls(calls, "usb_claim_interface") = 1

(* Set-configuration succeeded and the claim of interface 0 failed.        *)
C15_Witness ==
    /\ Created
    /\ Len(calls) = 6
    /\ calls[4].ret = 0
    /\ calls[5].fn = "usb_claim_interface"
    /\ calls[5].ret < 0
    /\ calls[6].fn = "usb_close"

(* C16: a command send makes one usb_control_msg call and nothing else; an *)
(* interrupt read or a get-reading makes one usb_interrupt_read call, for  *)
(* 8 bytes from endpoint 0x82, and nothing else; whatever was returned.    *)
C16_NoRetry ==
    /\ result.op \in {"TemperSendCommand8", "TemperSendCommand2"} =>
        /\ Len(calls) = 1
        /\ calls[1].fn = "usb_control_msg"
    /\ result.op \in {"TemperInterruptRead", "TemperGetData"} =>
        /\ Len(calls) = 1
        /\ calls[1].fn = "usb_interrupt_read"
        /\ calls[1].args[2] = 130
        /\ calls[1].args[3] = 8

(* A command that was answered with a partial count.                       *)
C16_Witness ==
    /\ result.op = "TemperSendCommand8"
    /\ calls[1].ret = 71
    /\ result.ret = -1
    /\ Len(calls) = 1

(* C17: the interrupt read and get-reading return the very value           *)
(* usb_interrupt_read returned, a count or a negative error code.          *)
C17_ReadReturnsTransportValue ==
    result.op \in {"TemperInterruptRead", "TemperGetData"} =>
        /\ calls # <<>>
        /\ calls[Len(calls)].fn = "usb_interrupt_read"
        /\ result.ret = calls[Len(calls)].ret

(* A get-reading whose read came back short.                               *)
C17_Witness ==
    /\ result.op = "TemperGetData"
    /\ calls[1].ret = 3
    /\ result.ret = 3

CountLines(ls, msg) == Cardinality({ k \in 1..Len(ls) : ls[k].msg = msg })

(* The place of device x in bus-then-device order.                         *)
PlaceOf(bs, x) == CHOOSE k \in 1..Len(AllDevs(bs, 1)) : AllDevs(bs, 1)[k] = x

(* C18: one call opens at most one device, the selected match and no match *)
(* before it; the scan examines no device after the selected one (in debug *)
(* mode it prints one line per device examined); and when the open of the  *)
(* selected device fails, at usb_open or later, the call returns NULL      *)
(* having called usb_open once.                                            *)
C18_OpensAtMostOne ==
    Created =>
        /\ CountCalls(calls, "usb_open") <= 1
        /\ usb.opens <= 1
        /\ calls # <<>> =>
            LET sel == calls[1].args[1]
            IN  /\ calls[1].fn = "usb_open"
                /\ sel = Supported(busses)[result.deviceNum + 1]
                /\ result.debug =>
                        CountLines(out, "Found device") = PlaceOf(busses, sel)
                /\ result.ret # NULL => t.device = sel
        /\ (calls # <<>> /\ FailureKind(calls) # "none") =>
            /\ result.ret = NULL
            /\ CountCalls(calls, "usb_open") = 1

(* Index 1 of three matches: usb_open failed on the second match and the   *)
(* third was left alone.                                                   *)
C18_Witness ==
    /\ Created
    /\ result.deviceNum = 1
    /\ Len(Supported(busses)) = 3
    /\ calls = << Call("usb_open", <<Supported(busses)[2]>>, NullHandle) >>
    /\ result.ret = NULL

(* C19: when interface 0 was claimed and the claim of interface 1 failed,  *)
(* the one libusb call after the failed claim is usb_close: interface 0 is *)
(* not released by open and is still held through the handle when it is    *)
(* closed.  TemperFree of a Session likewise makes the one call usb_close, *)
(* with both interfaces still held.                                        *)
C19_NoExplicitRelease ==
    /\ (Created /\ Len(calls) >= 6 /\ calls[5].ret = 0 /\ calls[6].ret # 0) =>
        /\ Len(calls) = 7
        /\ calls[7] = Call("usb_close", <<calls[1].ret>>, 0)
        /\ CountCalls(calls, "usb_release_interface") = 0
        /\ usb.claimed = {0}
        /\ ~usb.open
    /\ (result.op = "TemperFree" /\ result.arg # NULL) =>
        /\ calls = << Call("usb_close", <<result.arg.handle>>, 0) >>
        /\ usb.claimed = {0, 1}
        /\ ~usb.open

C19_Witness ==
    /\ Created
    /\ Len(calls) = 7
    /\ calls[5] = Call("usb_claim_interface", <<NewHandle, 0>>, 0)
    /\ calls[6].fn = "usb_claim_interface"
    /\ calls[6].ret # 0
    /\ calls[7].fn = "usb_close"

(* The Session a successful open returns holds the handle usb_open gave,   *)
(* the device and registry entry selected, and the timeout and debug flag  *)
(* the caller supplied.                                                    *)
SessionAsOpened ==
    (Created /\ t # NULL) =>
        /\ t.handle = calls[1].ret
        /\ t.device = calls[1].args[1]
        /\ t.timeout = result.timeout
        /\ t.debug = result.debug
        /\ ProductList[t.product].id = busses[t.device.bus][t.device.dev].idProduct

(* No step between two live states, that is no command send, interrupt     *)
(* read or get-reading, changes the Session or the state of its handle.    *)
SessionKept == (pc = "live" /\ pc' = "live") => (t' = t /\ usb' = usb)

(* Each transfer of the Session goes out on its handle with its timeout.   *)
TransfersUseSession ==
    /\ result.op \in {"TemperSendCommand8", "TemperSendCommand2"} =>
        /\ calls[1].args[1] = t.handle
        /\ calls[1].args[8] = t.timeout
    /\ result.op \in {"TemperInterruptRead", "TemperGetData"} =>
        /\ calls[1].args[1] = t.handle
        /\ calls[1].args[4] = t.timeout

(* C20: after a successful open the Session's handle, product, timeout and *)
(* debug flag are those set at open and no command or read changes them,   *)
(* whatever it returns; every control and interrupt transfer is issued on  *)
(* that handle with that timeout.                                          *)
C20_SessionFrozen ==
    /\ []SessionAsOpened
    /\ [][SessionKept]_vars
    /\ []TransfersUseSession

(* A failed command on a Session opened with the longer timeout.           *)
C20_Witness ==
    /\ result.op = "TemperSendCommand8"
    /\ result.ret = -1
    /\ t.timeout = 2500
    /\ calls[1].args[8] = 2500

=============================================================================
